---- MODULE Spec2Model ----
(***************************************************************************)
(* Model of package em (src/em.go): a fluent builder that accumulates      *)
(* recipients, a From address, a subject and a multipart body tree, and    *)
(* sends the message over SMTP with SendIt.                                *)
(*                                                                         *)
(* Go strings are modelled as TLA+ strings where they are only compared,   *)
(* and as sequences of one-character strings where the code slices them    *)
(* (the base64 text of an attachment).  A nil error is the string "nil".   *)
(***************************************************************************)
EXTENDS Integers, Sequences, FiniteSets, TLC

VARIABLES
    phase,          \* "new": no builder yet; "ready": builder built; "panic": a call panicked
    cfgFile,        \* environment: the credentials file NewEmFile reads
    fs,             \* environment: the files Attach reads, by name
    EmailCfgFn,     \* EM.EmailCfgFn
    EmailConfig,    \* EM.EmailConfig
    SmtpAuth,       \* EM.SmtpAuth
    Message,        \* EM.Message (the message under construction)
    Alt,            \* EM.Alt
    Mixed,          \* EM.Mixed
    Err,            \* EM.Err
    altSetup,       \* EM.altSetup
    lineMaxLength,  \* EM.lineMaxLength
    printErrors,    \* EM.printErrors
    stdout,         \* what the last call wrote with fmt.Printf
    tx,             \* the smtp.SendMail call made by the last call, if any
    last,           \* the error value the last call returned, for the calls that return one
    rcptLog,        \* history: To/Cc/Bcc calls since EM.Message was created
    bodyLog,        \* history: parts appended by TextBody/HtmlBody/Attach calls, in call order
    msgMark,        \* history: Len(bodyLog) at the time EM.Message was created
    nSetups         \* history: how many times doAltSetup created the containers

vars == <<phase, cfgFile, fs, EmailCfgFn, EmailConfig, SmtpAuth, Message, Alt, Mixed,
          Err, altSetup, lineMaxLength, printErrors, stdout, tx, last,
          rcptLog, bodyLog, msgMark, nSetups>>

(***************************************************************************)
(* Bounds of the model.                                                    *)
(***************************************************************************)
MaxRcpt == 1    \* Spec: recipient calls per message
MaxParts == 2   \* Spec: body parts added over the life of a builder
MaxCalls == 3   \* SpecRcpt: recipient calls per message
MaxLen == 4     \* SpecAttach: bytes in the attached file
MaxWidth == 9   \* SpecAttach: the largest line length below the default
MaxAttach == 1  \* SpecAttach: attachments added to a builder

(***************************************************************************)
(* Values.                                                                 *)
(***************************************************************************)
NoErr == "nil"

DefaultLineMaxLength == 500

ZeroUser == [Username |-> "", Password |-> "", EmailServer |-> "", Port |-> 0]

ZeroAddress == [Email |-> "", Name |-> ""]

NilPart == [ContentType |-> "nil", Parts |-> <<>>]

AltPtr == [ptr |-> "Alt"]

NoTx == [called |-> FALSE]

\* fmt.Sprintf("Error(12023): File (%s) missing or unreadable error: %v\n", fn, err)
ErrConfigRead == "Error(12023): File missing or unreadable"

\* fmt.Sprintf("Error(12002): Invalid format - %v\n", err)
ErrConfigFormat == "Error(12002): Invalid format"

ErrNoBody == "Error(12022): Can not send an email without a body or attachments."

\* fmt.Sprintf("Error(12021): SMTP Send Error: %v", err)
ErrSmtpSend(cause) == IF cause = "EOF" THEN "Error(12021): SMTP Send Error: EOF"
                      ELSE "Error(12021): SMTP Send Error: 535 auth failed"


(***************************************************************************)
(* Library functions the package calls.                                    *)
(***************************************************************************)

\* mailbuilder.NewMessage()
NewMessage == [From |-> ZeroAddress, To |-> <<>>, Cc |-> <<>>, Bcc |-> <<>>,
               Subject |-> "", Body |-> NilPart]

\* mailbuilder.NewAddress(addr, name)
NewAddress(addr, name) == [Email |-> addr, Name |-> name]

\* mailbuilder.NewMultiPart(t)
NewMultiPart(t) == [ContentType |-> t, Parts |-> <<>>]

\* (*MultiPart).AddPart(p)
AddPart(mp, p) == [mp EXCEPT !.Parts = Append(@, p)]

\* (*Message).Recipients(): the To, then the Cc, then the Bcc e-mail addresses
Emails(list) == [i \in 1..Len(list) |-> list[i].Email]

Recipients(m) == Emails(m.To) \o Emails(m.Cc) \o Emails(m.Bcc)

\* smtp.PlainAuth(identity, username, password, host)
PlainAuth(identity, username, password, host) ==
    [identity |-> identity, username |-> username, password |-> password, host |-> host]

\* Go's integer division truncates toward zero; the dividend here is a length.
GoDiv(a, b) == IF b > 0 THEN a \div b ELSE -(a \div (-b))

\* s[lo:hi] of a Go string of length Len(s); in range iff 0 <= lo <= hi <= Len(s)
SliceOk(s, lo, hi) == 0 <= lo /\ lo <= hi /\ hi <= Len(s)

Slice(s, lo, hi) == SubSeq(s, lo + 1, hi)

\* The alphabet of base64.StdEncoding, and its padding character.
B64 == << "A","B","C","D","E","F","G","H","I","J","K","L","M","N","O","P",
          "Q","R","S","T","U","V","W","X","Y","Z","a","b","c","d","e","f",
          "g","h","i","j","k","l","m","n","o","p","q","r","s","t","u","v",
          "w","x","y","z","0","1","2","3","4","5","6","7","8","9","+","/" >>

B64Pad == "="

RECURSIVE EncodeToString(_)
\* base64.StdEncoding.EncodeToString: 3 bytes give 4 characters, the tail is padded
EncodeToString(bytes) ==
    IF Len(bytes) = 0 THEN <<>>
    ELSE IF Len(bytes) = 1 THEN
        << B64[(bytes[1] \div 4) + 1], B64[((bytes[1] % 4) * 16) + 1], B64Pad, B64Pad >>
    ELSE IF Len(bytes) = 2 THEN
        << B64[(bytes[1] \div 4) + 1],
           B64[((bytes[1] % 4) * 16) + (bytes[2] \div 16) + 1],
           B64[((bytes[2] % 16) * 4) + 1], B64Pad >>
    ELSE
        << B64[(bytes[1] \div 4) + 1],
           B64[((bytes[1] % 4) * 16) + (bytes[2] \div 16) + 1],
           B64[((bytes[2] % 16) * 4) + (bytes[3] \div 64) + 1],
           B64[(bytes[3] % 64) + 1] >>
        \o EncodeToString(SubSeq(bytes, 4, Len(bytes)))

\* ioutil.ReadFile(fn) on the attachment files: a missing file reads as no bytes
\* (Attach drops the error).
ReadFile(files, fn) == IF files[fn].exists THEN files[fn].data ELSE <<>>

\* filepath.Base, filepath.Ext and mime.TypeByExtension on the file names of the model
Base(fn) == IF fn = "docs/a.txt" THEN "a.txt" ELSE "b.zzz"

Ext(fn) == IF fn = "docs/a.txt" THEN ".txt" ELSE ".zzz"

TypeByExtension(ext) == IF ext = ".txt" THEN "text/plain; charset=utf-8" ELSE ""

\* json.Unmarshal(data, &rv) on a credentials file.  A file is its four members in
\* order and the position of its first malformed member (0: none).  On malformed
\* input the decoder returns an error; which members it has stored by then is the
\* library's business: none, those before the malformed one, or all the others.
Members == <<"Username", "Password", "EmailServer", "Port">>

Populate(data, keep) ==
    [k \in DOMAIN ZeroUser |->
        IF \E i \in keep : Members[i] = k THEN data[k] ELSE ZeroUser[k]]

Unmarshal(data) ==
    IF data.bad = 0
    THEN {[rv |-> Populate(data, 1..4), err |-> NoErr]}
    ELSE {[rv |-> Populate(data, keep), err |-> "json: cannot unmarshal"] :
            keep \in {{}, 1..(data.bad - 1), (1..4) \ {data.bad}}}

\* The path NewEmFile reads for a file name: fn itself, HomeDir()+"/"+fn[2:], or "./"+fn
ResolvePath(fn) ==
    IF fn = "/etc/email.json" THEN "/etc/email.json"
    ELSE IF fn = "~/.email/email-config.json" THEN "/home/u/.email/email-config.json"
    ELSE "./email.json"


(***************************************************************************)
(* The package: construction.                                              *)
(***************************************************************************)

\* ioutil.ReadFile(fn) on the credentials file: the environment holds one, at cfgFile.path
FileAt(path) == IF cfgFile.path = path THEN cfgFile ELSE [cfgFile EXCEPT !.exists = FALSE]

\* EM.readEmailConfig: the results (rv, err) it can return.  The err assigned on
\* lines 83-86 is a new variable of the else block (err := json.Unmarshal...), so
\* the named result err keeps the nil that ioutil.ReadFile returned.
readEmailConfig(file) ==
    IF ~file.exists
    THEN {[rv |-> ZeroUser, err |-> ErrConfigRead]}
    ELSE {[rv |-> o.rv, err |-> NoErr] : o \in Unmarshal(file)}

\* EM.initEM
initEM ==
    /\ SmtpAuth' = PlainAuth("", EmailConfig'.Username, EmailConfig'.Password,
                             EmailConfig'.EmailServer)
    /\ Message' = NewMessage

\* What no constructor touches, and the history of a new builder.
NewBuilder ==
    /\ phase' = "ready"
    /\ altSetup' = FALSE
    /\ lineMaxLength' = DefaultLineMaxLength
    /\ Alt' = NilPart
    /\ Mixed' = NilPart
    /\ tx' = NoTx
    /\ rcptLog' = <<>>
    /\ bodyLog' = <<>>
    /\ msgMark' = 0
    /\ nSetups' = 0
    /\ UNCHANGED <<cfgFile, fs>>

\* NewEmFile(fn, pe)
NewEmFile(fn, pe) ==
    /\ phase = "new"
    /\ \E r \in readEmailConfig(FileAt(ResolvePath(fn))) :
        /\ EmailCfgFn' = fn
        /\ printErrors' = pe
        /\ EmailConfig' = r.rv
        /\ Err' = r.err
        /\ stdout' = IF r.err # NoErr /\ pe THEN <<r.err>> ELSE <<>>
        /\ last' = [op |-> "NewEmFile", err |-> r.err]
    /\ initEM
    /\ NewBuilder

\* NewEm(ec)
NewEm(ec) ==
    /\ phase = "new"
    /\ EmailCfgFn' = ""
    /\ printErrors' = TRUE
    /\ Err' = NoErr
    /\ EmailConfig' = ec
    /\ stdout' = <<>>
    /\ last' = [op |-> "NewEm", err |-> NoErr]
    /\ initEM
    /\ NewBuilder

(***************************************************************************)
(* The package: settings and headers.                                      *)
(***************************************************************************)

\* No call that returns an error value (or panics) has been the last one.
NoCall == [op |-> "", err |-> NoErr]

\* What a call that returns the builder leaves behind: no error value, no transport
\* call, no output.
Returns(op) ==
    /\ last' = NoCall
    /\ tx' = NoTx
    /\ stdout' = <<>>
    /\ UNCHANGED <<phase, cfgFile, fs, EmailCfgFn, EmailConfig, SmtpAuth, Err>>

\* EM.SetMaxLineLength
SetMaxLineLength(n) ==
    /\ phase = "ready"
    /\ lineMaxLength' = n
    /\ Returns("SetMaxLineLength")
    /\ UNCHANGED <<Message, Alt, Mixed, altSetup, printErrors,
                   rcptLog, bodyLog, msgMark, nSetups>>

\* EM.SetPrintErrors
SetPrintErrors(b) ==
    /\ phase = "ready"
    /\ printErrors' = b
    /\ Returns("SetPrintErrors")
    /\ UNCHANGED <<Message, Alt, Mixed, altSetup, lineMaxLength,
                   rcptLog, bodyLog, msgMark, nSetups>>

\* EM.To
To(addr, name) ==
    /\ phase = "ready"
    /\ Message' = [Message EXCEPT !.To = Append(@, NewAddress(addr, name))]
    /\ rcptLog' = Append(rcptLog, [op |-> "To", addr |-> addr])
    /\ Returns("To")
    /\ UNCHANGED <<Alt, Mixed, altSetup, lineMaxLength, printErrors,
                   bodyLog, msgMark, nSetups>>

\* EM.Cc with the call of EM.To copied into it: the address goes to the To list
CcAddsTo(addr, name) ==
    /\ phase = "ready"
    /\ Message' = [Message EXCEPT !.To = Append(@, NewAddress(addr, name))]
    /\ rcptLog' = Append(rcptLog, [op |-> "Cc", addr |-> addr])
    /\ Returns("Cc")
    /\ UNCHANGED <<Alt, Mixed, altSetup, lineMaxLength, printErrors,
                   bodyLog, msgMark, nSetups>>

\* EM.Cc
Cc(addr, name) ==
    /\ phase = "ready"
    /\ Message' = [Message EXCEPT !.Cc = Append(@, NewAddress(addr, name))]
    /\ rcptLog' = Append(rcptLog, [op |-> "Cc", addr |-> addr])
    /\ Returns("Cc")
    /\ UNCHANGED <<Alt, Mixed, altSetup, lineMaxLength, printErrors,
                   bodyLog, msgMark, nSetups>>

\* EM.Bcc
Bcc(addr, name) ==
    /\ phase = "ready"
    /\ Message' = [Message EXCEPT !.Bcc = Append(@, NewAddress(addr, name))]
    /\ rcptLog' = Append(rcptLog, [op |-> "Bcc", addr |-> addr])
    /\ Returns("Bcc")
    /\ UNCHANGED <<Alt, Mixed, altSetup, lineMaxLength, printErrors,
                   bodyLog, msgMark, nSetups>>

\* EM.From
From(addr, name) ==
    /\ phase = "ready"
    /\ Message' = [Message EXCEPT !.From = NewAddress(addr, name)]
    /\ Returns("From")
    /\ UNCHANGED <<Alt, Mixed, altSetup, lineMaxLength, printErrors,
                   rcptLog, bodyLog, msgMark, nSetups>>

\* EM.Subject
Subject(s) ==
    /\ phase = "ready"
    /\ Message' = [Message EXCEPT !.Subject = s]
    /\ Returns("Subject")
    /\ UNCHANGED <<Alt, Mixed, altSetup, lineMaxLength, printErrors,
                   rcptLog, bodyLog, msgMark, nSetups>>


(***************************************************************************)
(* The package: the body tree.                                             *)
(***************************************************************************)

\* EM.doAltSetup without its guard: every call creates new containers
doAltSetupAlways ==
    [altSetup |-> TRUE,
     Alt |-> NewMultiPart("multipart/alternative"),
     Mixed |-> AddPart(NewMultiPart("multipart/mixed"), AltPtr),
     created |-> 1]

\* EM.doAltSetup: the fields after the call, and whether it created the containers
doAltSetup ==
    IF ~altSetup
    THEN [altSetup |-> TRUE,
          Alt |-> NewMultiPart("multipart/alternative"),
          Mixed |-> AddPart(NewMultiPart("multipart/mixed"), AltPtr),
          created |-> 1]
    ELSE [altSetup |-> altSetup, Alt |-> Alt, Mixed |-> Mixed, created |-> 0]

\* A mailbuilder.SimplePart with its headers and content
TextPart(s) == [Headers |-> [ContentType |-> "text/plain; charset=us-ascii"], Content |-> s]

HtmlPart(s) == [Headers |-> [ContentType |-> "text/html; charset=us-ascii"], Content |-> s]

AttachPart(fn, content) ==
    [Headers |-> [ContentType |-> TypeByExtension(Ext(fn)),
                  ContentTransferEncoding |-> "base64",
                  ContentDisposition |-> [disposition |-> "attachment", filename |-> Base(fn)]],
     Content |-> content]

\* EM.TextBody
TextBody(s) ==
    /\ phase = "ready"
    /\ LET d == doAltSetup
           text == TextPart(s)
       IN /\ altSetup' = d.altSetup
          /\ Mixed' = d.Mixed
          /\ Alt' = AddPart(d.Alt, text)
          /\ nSetups' = nSetups + d.created
          /\ bodyLog' = Append(bodyLog, [op |-> "TextBody", part |-> text])
    /\ Returns("TextBody")
    /\ UNCHANGED <<Message, lineMaxLength, printErrors, rcptLog, msgMark>>

\* EM.HtmlBody
HtmlBody(s) ==
    /\ phase = "ready"
    /\ LET d == doAltSetup
           html == HtmlPart(s)
       IN /\ altSetup' = d.altSetup
          /\ Mixed' = d.Mixed
          /\ Alt' = AddPart(d.Alt, html)
          /\ nSetups' = nSetups + d.created
          /\ bodyLog' = Append(bodyLog, [op |-> "HtmlBody", part |-> html])
    /\ Returns("HtmlBody")
    /\ UNCHANGED <<Message, lineMaxLength, printErrors, rcptLog, msgMark>>

\* EM.Attach, line 217: nbrLines := len(encoded) / this.lineMaxLength
nbrLines(encoded, n) == GoDiv(Len(encoded), n)

RECURSIVE WrapLoop(_, _, _, _, _)
\* EM.Attach, lines 219-221: the loop body from i on, buf being what is written so far
WrapLoop(encoded, n, i, nbr, buf) ==
    IF i < nbr
    THEN WrapLoop(encoded, n, i + 1, nbr, buf \o Slice(encoded, i * n, (i + 1) * n) \o <<"\n">>)
    ELSE buf

\* EM.Attach without line 222: the remainder after the last full line is dropped
WrapLinesNoTail(encoded, n) ==
    WrapLoop(encoded, n, 0, nbrLines(encoded, n), <<>>)

\* EM.Attach, lines 217-223: the content of the attachment for a line length n # 0
WrapLines(encoded, n) ==
    LET nbr == nbrLines(encoded, n)
    IN WrapLoop(encoded, n, 0, nbr, <<>>) \o Slice(encoded, nbr * n, Len(encoded))

\* EM.Attach, lines 217-222: the run-time panics of the division and of the slices
AttachPanics(encoded, n) ==
    \/ n = 0
    \/ LET nbr == nbrLines(encoded, n)
       IN \/ \E i \in 0..(nbr - 1) : ~SliceOk(encoded, i * n, (i + 1) * n)
          \/ ~SliceOk(encoded, nbr * n, Len(encoded))

\* EM.Attach
Attach(fn) ==
    /\ phase = "ready"
    /\ LET d == doAltSetup
           content == ReadFile(fs, fn)
           encoded == EncodeToString(content)
       IN /\ altSetup' = d.altSetup
          /\ Alt' = d.Alt
          /\ nSetups' = nSetups + d.created
          /\ IF AttachPanics(encoded, lineMaxLength)
             THEN /\ phase' = "panic"
                  /\ Mixed' = d.Mixed
                  /\ last' = [op |-> "Attach", err |-> "panic: runtime error"]
                  /\ tx' = NoTx
                  /\ stdout' = <<>>
                  /\ UNCHANGED <<cfgFile, fs, EmailCfgFn, EmailConfig, SmtpAuth, Err,
                                 bodyLog>>
             ELSE LET attch == AttachPart(fn, WrapLines(encoded, lineMaxLength))
                  IN /\ Mixed' = AddPart(d.Mixed, attch)
                     /\ bodyLog' = Append(bodyLog, [op |-> "Attach", part |-> attch])
                     /\ Returns("Attach")
    /\ UNCHANGED <<Message, lineMaxLength, printErrors, rcptLog, msgMark>>

\* The tree a *MultiPart stands for: Mixed holds a pointer to Alt
BodyTree(mixed, alt) ==
    [mixed EXCEPT !.Parts = [i \in DOMAIN mixed.Parts |->
                                IF mixed.Parts[i] = AltPtr THEN alt ELSE mixed.Parts[i]]]

(***************************************************************************)
(* The package: sending.                                                   *)
(***************************************************************************)

\* EM.SendIt with this.Err = err outside the if: a successful send clears the error
ErrAlwaysAssigned(old, err) == err

\* EM.SendIt, lines 245-252: this.Err after smtp.SendMail returned err (wrapped)
ErrAfterSend(old, err) == IF err # NoErr THEN err ELSE old

\* EM.SendIt, lines 232-235: the guard on altSetup
NothingToSend == ~altSetup

\* EM.SendIt; outcome is what smtp.SendMail does: "ok" or the cause of its failure
SendIt(outcome) ==
    /\ phase = "ready"
    /\ IF NothingToSend
       THEN /\ last' = [op |-> "SendIt", err |-> ErrNoBody]
            /\ tx' = NoTx
            /\ stdout' = <<>>
            /\ UNCHANGED <<Message, Err, rcptLog, msgMark>>
       ELSE LET body == BodyTree(Mixed, Alt)
                err == IF outcome = "ok" THEN NoErr ELSE ErrSmtpSend(outcome)
            IN /\ tx' = [called |-> TRUE,
                         addr |-> [host |-> EmailConfig.EmailServer, port |-> EmailConfig.Port],
                         auth |-> SmtpAuth,
                         from |-> Message.From.Email,
                         to |-> Recipients(Message),
                         msg |-> [Message EXCEPT !.Body = body]]
               /\ stdout' = IF err # NoErr /\ printErrors THEN <<err>> ELSE <<>>
               /\ Err' = ErrAfterSend(Err, err)
               /\ last' = [op |-> "SendIt", err |-> err]
               /\ Message' = NewMessage
               /\ rcptLog' = <<>>
               /\ msgMark' = Len(bodyLog)
    /\ UNCHANGED <<phase, cfgFile, fs, EmailCfgFn, EmailConfig, SmtpAuth, Alt, Mixed,
                   altSetup, lineMaxLength, printErrors, bodyLog, nSetups>>


(***************************************************************************)
(* Inputs.                                                                 *)
(***************************************************************************)
CfgPath == "/home/u/.email/email-config.json"

ValidCfg == [path |-> CfgPath, exists |-> TRUE, bad |-> 0, Username |-> "me@x.com",
             Password |-> "pw", EmailServer |-> "smtp.x.com", Port |-> 587]

\* absent; well-formed; well-formed up to a Port that is not a number
CfgFiles == {[ValidCfg EXCEPT !.exists = FALSE], ValidCfg, [ValidCfg EXCEPT !.bad = 4]}

CfgFns == {"~/.email/email-config.json"}

Creds == {[Username |-> "me@x.com", Password |-> "pw", EmailServer |-> "smtp.x.com",
           Port |-> 587]}

NoFile == [exists |-> FALSE, data |-> <<>>]

\* "Man" in docs/a.txt, no b.zzz
SmallFs == [fn \in {"docs/a.txt", "b.zzz"} |->
              IF fn = "docs/a.txt" THEN [exists |-> TRUE, data |-> <<77, 97, 110>>]
              ELSE NoFile]

Names == {"N"}

Texts == {<<"a">>}

Htmls == {<<"b">>}

Outcomes == {"ok", "EOF"}

(***************************************************************************)
(* The builder's life: construction, then any calls in any order.          *)
(***************************************************************************)
InitWith(cfgs, fss) ==
    /\ phase = "new"
    /\ cfgFile \in cfgs
    /\ fs \in fss
    /\ EmailCfgFn = ""
    /\ EmailConfig = ZeroUser
    /\ SmtpAuth = PlainAuth("", "", "", "")
    /\ Message = NewMessage
    /\ Alt = NilPart
    /\ Mixed = NilPart
    /\ Err = NoErr
    /\ altSetup = FALSE
    /\ lineMaxLength = 0
    /\ printErrors = FALSE
    /\ stdout = <<>>
    /\ tx = NoTx
    /\ last = NoCall
    /\ rcptLog = <<>>
    /\ bodyLog = <<>>
    /\ msgMark = 0
    /\ nSetups = 0

Init == InitWith(CfgFiles, {SmallFs})

Next ==
    \/ \E fn \in CfgFns, pe \in BOOLEAN : NewEmFile(fn, pe)
    \/ \E ec \in Creds : NewEm(ec)
    \/ SetMaxLineLength(0)
    \/ \E b \in BOOLEAN : SetPrintErrors(b)
    \/ \E n \in Names : Len(rcptLog) < MaxRcpt /\ To("a@x.com", n)
    \/ \E n \in Names : Len(rcptLog) < MaxRcpt /\ Cc("a@x.com", n)
    \/ \E n \in Names : Len(rcptLog) < MaxRcpt /\ Bcc("a@x.com", n)
    \/ \E n \in Names : From("me@x.com", n)
    \/ Subject("Hi")
    \/ \E s \in Texts : Len(bodyLog) < MaxParts /\ TextBody(s)
    \/ \E s \in Htmls : Len(bodyLog) < MaxParts /\ HtmlBody(s)
    \/ Len(bodyLog) < MaxParts /\ Attach("docs/a.txt")
    \/ \E o \in Outcomes : SendIt(o)

Spec == Init /\ [][Next]_vars


(***************************************************************************)
(* Recipients: one message at a time, any interleaving of To, Cc and Bcc   *)
(* over three addresses.                                                   *)
(***************************************************************************)
Addrs == {"a@x.com", "b@x.com", "c@x.com"}

InitRcpt == InitWith({ValidCfg}, {SmallFs})

NextRcpt ==
    \/ \E ec \in Creds : NewEm(ec)
    \/ \E a \in Addrs, n \in Names : Len(rcptLog) < MaxCalls /\ To(a, n)
    \/ \E a \in Addrs, n \in Names : Len(rcptLog) < MaxCalls /\ Cc(a, n)
    \/ \E a \in Addrs, n \in Names : Len(rcptLog) < MaxCalls /\ Bcc(a, n)
    \/ \E n \in Names : From("me@x.com", n)
    \/ Subject("Hi")
    \/ \E s \in Texts : bodyLog = <<>> /\ TextBody(s)
    \/ \E o \in Outcomes : SendIt(o)

SpecRcpt == InitRcpt /\ [][NextRcpt]_vars

(***************************************************************************)
(* Attachments: every file of up to MaxLen bytes, every line length from   *)
(* -2 to MaxWidth and the default.                                         *)
(***************************************************************************)
Bytes == {77, 255}

ByteSeqs == UNION {[1..n -> Bytes] : n \in 0..MaxLen}

AttachFiles == {NoFile} \cup {[exists |-> TRUE, data |-> d] : d \in ByteSeqs}

AttachFss == {[fn \in {"docs/a.txt", "b.zzz"} |-> IF fn = "docs/a.txt" THEN f ELSE NoFile] :
                f \in AttachFiles}

Widths == ((-2)..MaxWidth) \cup {DefaultLineMaxLength}

InitAttach == InitWith({ValidCfg}, AttachFss)

NextAttach ==
    \/ \E ec \in Creds : NewEm(ec)
    \/ \E n \in Widths : SetMaxLineLength(n)
    \/ Len(bodyLog) < MaxAttach /\ Attach("docs/a.txt")

SpecAttach == InitAttach /\ [][NextAttach]_vars


(***************************************************************************)
(* Properties.                                                             *)
(***************************************************************************)

\* The calls that add a part, by container, in call order
PartsOf(log, ops) ==
    LET sel == SelectSeq(log, LAMBDA e : e.op \in ops)
    IN [i \in 1..Len(sel) |-> sel[i].part]

\* The addresses of the recipient calls of one kind, in call order
AddrsOf(log, op) ==
    LET sel == SelectSeq(log, LAMBDA e : e.op = op)
    IN [i \in 1..Len(sel) |-> sel[i].addr]

\* The reference split of E at width L >= 1: every (L+1)-th character is a newline,
\* the others are the characters of E in order.
RefSplit(E, L) ==
    [k \in 1..(Len(E) + (Len(E) \div L)) |->
        IF k % (L + 1) = 0 THEN "\n" ELSE E[k - (k \div (L + 1))]]

\* The lines of a text: the lengths of its maximal newline-free runs, the last included
LineLengths(text) ==
    LET nl == {k \in 1..Len(text) : text[k] = "\n"}
        starts == {1} \cup {k + 1 : k \in nl}
    IN {[from |-> b,
         len |-> (IF \E k \in nl : k >= b
                  THEN (CHOOSE k \in nl : k >= b /\ \A j \in nl : j >= b => k <= j) - b
                  ELSE Len(text) + 1 - b),
         last |-> ~(\E k \in nl : k >= b)] : b \in starts}

\* C1: a SendIt made while the message under construction has received no TextBody,
\* HtmlBody or Attach call returns the no-body error (12022) and makes no SMTP call.
C1_SendWithoutBodyFails ==
    [][(last'.op = "SendIt" /\ msgMark = Len(bodyLog))
         => (last'.err = ErrNoBody /\ ~tx'.called)]_vars

\* C2: after a successful SendIt the body tree is empty: the next TextBody, HtmlBody or
\* Attach starts from no parts, so the next message transmits only its own parts.
C2_BodyEmptyAfterSend ==
    (last.op = "SendIt" /\ last.err = NoErr)
        => (~altSetup \/ (Alt.Parts = <<>> /\ Mixed.Parts = <<AltPtr>>))

\* C3: right after every SendIt, whatever it returned, the message under construction
\* is a fresh one: no To, Cc or Bcc address, no From address, no Subject.
C3_SendResetsMessage ==
    last.op = "SendIt"
        => /\ Message.To = <<>> /\ Message.Cc = <<>> /\ Message.Bcc = <<>>
           /\ Message.From = ZeroAddress
           /\ Message.Subject = ""

\* C4: loading the credentials file has two outcomes: a readable well-formed file gives
\* no error and the credentials of the file; a missing or malformed file gives an error,
\* which NewEmFile stores in Err.
C4_LoadTwoOutcomes ==
    last.op = "NewEmFile"
        => IF cfgFile.exists /\ cfgFile.bad = 0
           THEN /\ last.err = NoErr
                /\ EmailConfig = [k \in DOMAIN ZeroUser |-> cfgFile[k]]
           ELSE /\ last.err # NoErr
                /\ Err = last.err

\* C5: every SendIt that returns an error has recorded that error in Err.
C5_SendErrorRecorded ==
    (last.op = "SendIt" /\ last.err # NoErr) => Err = last.err

\* C6: for a line length L >= 1 the content Attach gives the attachment is the reference
\* split of the base64 text E of the file: every line but the last has exactly L
\* characters, the last has fewer than L, and without the newlines it is E again.
C6_AttachWrapsLines ==
    [][(/\ phase = "ready" /\ phase' = "ready"
        /\ lineMaxLength >= 1
        /\ Len(bodyLog') = Len(bodyLog) + 1
        /\ bodyLog'[Len(bodyLog')].op = "Attach")
        => LET attch == bodyLog'[Len(bodyLog')].part
               fn == CHOOSE f \in DOMAIN fs : Base(f) = attch.Headers.ContentDisposition.filename
               E == EncodeToString(ReadFile(fs, fn))
               out == Mixed'.Parts[Len(Mixed'.Parts)].Content
           IN /\ out = RefSplit(E, lineMaxLength)
              /\ \A l \in LineLengths(out) :
                    IF l.last THEN l.len < lineMaxLength ELSE l.len = lineMaxLength
              /\ SelectSeq(out, LAMBDA c : c # "\n") = E]_vars

\* C6 happens: a 4-byte file (8 characters of base64) wrapped at 3 gives two full lines
\* and a remainder of two characters.
C6_Witness ==
    /\ phase = "ready"
    /\ lineMaxLength = 3
    /\ Len(fs["docs/a.txt"].data) = 4
    /\ Len(Mixed.Parts) = 2
    /\ Mixed.Parts[2].Content = RefSplit(EncodeToString(fs["docs/a.txt"].data), 3)
    /\ Len(Mixed.Parts[2].Content) = 10

\* C7: Attach does not panic on a boundary line length (0, or more than the length of
\* the encoded content): it returns, and the attachment is the last part of Mixed.
C7_AttachNeverPanics ==
    [][phase = "ready"
         => /\ phase' = "ready"
            /\ (Len(bodyLog') = Len(bodyLog) + 1 /\ bodyLog'[Len(bodyLog')].op = "Attach")
                 => Mixed'.Parts[Len(Mixed'.Parts)] = bodyLog'[Len(bodyLog')].part]_vars

\* C8: the recipient list SendIt passes to smtp.SendMail is the addresses of the To
\* calls in call order, then those of the Cc calls, then those of the Bcc calls,
\* duplicates kept, whatever the interleaving of the calls (and of From and Subject).
C8_RecipientOrder ==
    [][tx'.called
         => tx'.to = AddrsOf(rcptLog, "To") \o AddrsOf(rcptLog, "Cc") \o AddrsOf(rcptLog, "Bcc")]_vars

\* C8 happens: To(a), To(b), Cc(c) was sent, and so was a message with Bcc before To
C8_Witness ==
    /\ last.op = "SendIt"
    /\ tx.called
    /\ tx.to = <<"a@x.com", "b@x.com", "c@x.com">>
    /\ Len(tx.msg.To) = 2
    /\ Len(tx.msg.Cc) = 1

\* C9: once a TextBody, HtmlBody or Attach call has been made (the first one creates the
\* containers), the containers have been created exactly once, Mixed is a
\* multipart/mixed whose first child is Alt, the multipart/alternative; Alt's children
\* are the text and HTML parts in call order, the other children of Mixed are the
\* attachments in call order (of the calls that returned: a call that panics adds
\* none); and the body SendIt hands to the transport is that tree.
C9_TreeShape ==
    (nSetups # 0 \/ bodyLog # <<>>)
        => /\ altSetup
           /\ nSetups = 1
           /\ Mixed.ContentType = "multipart/mixed"
           /\ Len(Mixed.Parts) >= 1
           /\ Mixed.Parts[1] = AltPtr
           /\ Alt.ContentType = "multipart/alternative"
           /\ Alt.Parts = PartsOf(bodyLog, {"TextBody", "HtmlBody"})
           /\ Tail(Mixed.Parts) = PartsOf(bodyLog, {"Attach"})
           /\ tx.called => tx.msg.Body = BodyTree(Mixed, Alt)

\* C9 happens: a text part, then an attachment, then a send
C9_Witness ==
    /\ Len(bodyLog) = 2
    /\ bodyLog[1].op = "TextBody"
    /\ bodyLog[2].op = "Attach"
    /\ tx.called
    /\ Len(tx.msg.Body.Parts) = 2
    /\ Len(tx.msg.Body.Parts[1].Parts) = 1

\* C10: Err is sticky.  Once the builder is built, no call sets a non-nil Err back to
\* nil, and the only call that changes Err is a SendIt whose smtp.SendMail failed, which
\* sets it to the error it returns.
C10_ErrSticky ==
    [][phase = "ready"
         => /\ Err # NoErr => Err' # NoErr
            /\ Err' # Err => /\ last'.op = "SendIt"
                             /\ tx'.called
                             /\ last'.err # NoErr
                             /\ Err' = last'.err]_vars

\* C10 happens: the credentials file could not be read, and a later SendIt returned nil
C10_Witness ==
    /\ Err = ErrConfigRead
    /\ last.op = "SendIt"
    /\ last.err = NoErr
    /\ tx.called

====
